---- MODULE Spec2Model ----
(***************************************************************************)
(* A model of the Tracklog / TrackPoint3D classes of gpxtrack.py.          *)
(*                                                                         *)
(* One Tracklog object is modelled: its two point lists are the state,    *)
(* every public method is one action.  Python's None is the empty tuple,  *)
(* a present optional value v is <<v>>.  Timestamps are whole seconds.    *)
(* Coordinates are fixed-point integers; float arithmetic is modelled at  *)
(* that resolution (division and square root round down).  List indices   *)
(* that the code returns or takes are Python's (0-based); tps[i + 1] is    *)
(* the code's trackpoints[i].                                              *)
(*                                                                         *)
(* `last` records the most recent call (method, arguments, return value,  *)
(* exception raised) and `pre` the two lists as they were when that call   *)
(* started, so that a method's contract is a predicate of one state.      *)
(***************************************************************************)
EXTENDS Integers, Sequences, FiniteSets, TLC

VARIABLES trackpoints, waypoints, last, pre, reference

vars == <<trackpoints, waypoints, last, pre, reference>>

(* ----------------------------- bounds --------------------------------- *)

\* longest trackpoint list a file holds
MaxPoints == 3
\* latest timestamp (seconds) a file holds; timestamps are 0..MaxTime
MaxTime == 3
\* longest waypoint list of a file that holds waypoints and trackpoints
MaxWaypoints == 2

(* ----------------------------- values --------------------------------- *)

None == <<>>

Some(v) == <<v>>

\* the value of a present optional
Val(o) == o[1]

\* <<lat, long, elevation>> triples the files' points are drawn from; the
\* planar distances between them are 6, 8 and 10
Positions == { <<0, 0, 0>>, <<6, 0, 4>>, <<6, 8, 2>> }

Timestamps == { Some(t) : t \in 0..MaxTime }

OptTimestamps == {None} \cup Timestamps

\* TrackPoint3D.__init__; density is not set before density_at sets it
TrackPoint3D(name, lat, long, elev, timestamp) ==
    [ name |-> name, lat |-> lat, long |-> long, elevation |-> elev,
      timestamp |-> timestamp, speed |-> None, density |-> None ]

\* floor of the square root (math.sqrt at the model's resolution)
Sqrt(n) == CHOOSE r \in 0..n : r * r <= n /\ n < (r + 1) * (r + 1)

\* utm.from_latlon near the central meridian of a zone: a false easting of
\* 500000 and a locally linear map of the fixed-point degrees
to_utm(p) == << 500000 + p.long, p.lat >>

distance2D_to(p, other) ==
    LET pt1 == to_utm(p)
        pt2 == to_utm(other)
    IN  Sqrt((pt1[1] - pt2[1]) * (pt1[1] - pt2[1])
             + (pt1[2] - pt2[2]) * (pt1[2] - pt2[2]))

\* seconds of (p.timestamp - other.timestamp); both must be present
deltatime_seconds(p, other) == Val(p.timestamp) - Val(other.timestamp)

is_empty(tps) == ~ (Len(tps) > 0)

has_timestamp(tps) ==
    IF is_empty(tps) THEN FALSE
    ELSE IF tps[1].timestamp # None THEN TRUE ELSE FALSE

trackpoints_count(tps) == Len(tps)

(* ----------------------------- files ---------------------------------- *)

\* a point record of a GPX file: a position and an optional time
FilePoints == { [pos |-> c, time |-> t] : c \in Positions, t \in OptTimestamps }

\* the position of the points of the files whose positions are not read
Anchor == <<6, 0, 4>>

\* import_gpx's two loops: one TrackPoint3D per record, named by its
\* 1-based position in the file
ReadPoints(raw) ==
    [i \in 1..Len(raw) |->
        TrackPoint3D(i, raw[i].pos[1], raw[i].pos[2], raw[i].pos[3], raw[i].time)]

Snapshot == [trackpoints |-> trackpoints, waypoints |-> waypoints]

Call(op, args, ret, raised) ==
    [op |-> op, args |-> args, ret |-> ret, raised |-> raised]

(* ----------------------------- Tracklog -------------------------------- *)

\* Tracklog.__init__ with a path: both lists as import_gpx builds them
\* from the file's waypoint and trackpoint records (a file without any
\* record gives the two empty lists of a Tracklog built without a path)
Constructed(wpts, trks) ==
    /\ waypoints = ReadPoints(wpts)
    /\ trackpoints = ReadPoints(trks)
    /\ last = Call("__init__", <<>>, None, "none")
    /\ pre = [trackpoints |-> <<>>, waypoints |-> <<>>]
    /\ reference = [trackpoints |-> <<>>, waypoints |-> <<>>]

\* Files for the methods that read only timestamps: every point at one
\* position; any trackpoint times (also missing) without waypoints, or
\* timed waypoints and timed trackpoints, at most MaxWaypoints + 1 points
\* in all.
InitTime ==
    \/ \E n \in 0..MaxPoints : \E ts \in [1..n -> OptTimestamps] :
          Constructed(<<>>, [i \in 1..n |-> [pos |-> Anchor, time |-> ts[i]]])
    \/ \E m \in 1..MaxWaypoints : \E n \in 0..(MaxWaypoints + 1 - m) :
          \E ws \in [1..m -> Timestamps], ts \in [1..n -> Timestamps] :
             Constructed([i \in 1..m |-> [pos |-> Anchor, time |-> ws[i]]],
                         [i \in 1..n |-> [pos |-> Anchor, time |-> ts[i]]])

\* Files for the methods that read only positions: any positions, all
\* points without time or all with the same time.
InitGeo ==
    \E n \in 0..MaxPoints : \E cs \in [1..n -> Positions], t \in {None, Some(0)} :
        Constructed(<<>>, [i \in 1..n |-> [pos |-> cs[i], time |-> t]])

\* Files for the methods that read positions and timestamps: any
\* trackpoints.
InitSpeed ==
    \E n \in 0..MaxPoints : \E trks \in [1..n -> FilePoints] :
        Constructed(<<>>, trks)

\* Files for time_reverse: any trackpoints without waypoints, or timed
\* waypoints and timed trackpoints at any positions, at most
\* MaxWaypoints + 1 points in all.
InitReverse ==
    \/ \E n \in 0..MaxPoints : \E trks \in [1..n -> FilePoints] :
          Constructed(<<>>, trks)
    \/ \E m \in 1..MaxWaypoints : \E n \in 0..(MaxWaypoints + 1 - m) :
          \E ws \in [1..m -> Timestamps],
             trks \in [1..n -> { f \in FilePoints : f.time # None }] :
             Constructed([i \in 1..m |-> [pos |-> Anchor, time |-> ws[i]]], trks)

\* Files for snapping: any positions, recorded one second apart or without
\* time.
InitSnap ==
    \E n \in 0..MaxPoints : \E cs \in [1..n -> Positions], timed \in BOOLEAN :
        Constructed(<<>>, [i \in 1..n |->
            [pos |-> cs[i], time |-> IF timed THEN Some(i - 1) ELSE None]])

\* RegulateLoop measuring every point against the first one: last_point
\* is never advanced
RECURSIVE RegulateLoopFromFirst(_, _, _, _, _)
RegulateLoopFromFirst(tps, index, last_point, new_point_list, min_deltatime_sec) ==
    IF index >= Len(tps) THEN [kept |-> new_point_list, raised |-> "none"]
    ELSE LET pt == tps[index + 1] IN
         IF pt.timestamp = None \/ last_point.timestamp = None
         THEN [kept |-> new_point_list, raised |-> "TypeError"]
         ELSE IF deltatime_seconds(pt, last_point) >= min_deltatime_sec
              THEN RegulateLoopFromFirst(tps, index + 1, last_point,
                                Append(new_point_list, pt), min_deltatime_sec)
              ELSE RegulateLoopFromFirst(tps, index + 1, last_point,
                                new_point_list, min_deltatime_sec)

\* The loop of regulate_points from index (0-based) to the end:
\* [kept, raised]; a missing timestamp raises TypeError at the subtraction.
RECURSIVE RegulateLoop(_, _, _, _, _)
RegulateLoop(tps, index, last_point, new_point_list, min_deltatime_sec) ==
    IF index >= Len(tps) THEN [kept |-> new_point_list, raised |-> "none"]
    ELSE LET pt == tps[index + 1] IN
         IF pt.timestamp = None \/ last_point.timestamp = None
         THEN [kept |-> new_point_list, raised |-> "TypeError"]
         ELSE IF deltatime_seconds(pt, last_point) >= min_deltatime_sec
              THEN RegulateLoop(tps, index + 1, pt,
                                Append(new_point_list, pt), min_deltatime_sec)
              ELSE RegulateLoop(tps, index + 1, last_point,
                                new_point_list, min_deltatime_sec)

\* regulate_points: trackpoints[0] on an empty list raises IndexError; the
\* list is replaced only when the loop ran to its end.
RegulateResult(tps, min_deltatime_sec) ==
    IF Len(tps) = 0 THEN [kept |-> tps, raised |-> "IndexError"]
    ELSE RegulateLoop(tps, 1, tps[1], <<>>, min_deltatime_sec)

regulate_points ==
    \E min_deltatime_sec \in -1..MaxTime :
        LET r == RegulateResult(trackpoints, min_deltatime_sec) IN
        /\ trackpoints' = IF r.raised = "none" THEN r.kept ELSE trackpoints
        /\ UNCHANGED waypoints
        /\ last' = Call("regulate_points",
                        [min_deltatime_sec |-> min_deltatime_sec], None, r.raised)
        /\ pre' = Snapshot
        /\ UNCHANGED reference

\* TrimFilter with an inclusive lower bound
TrimFilterFromStart(pts, start_time, end_time) ==
    SelectSeq(pts, LAMBDA pt3D : Val(pt3D.timestamp) >= start_time
                                 /\ Val(pt3D.timestamp) < end_time)

\* One filter loop of trim over points that all carry a timestamp
TrimFilter(pts, start_time, end_time) ==
    SelectSeq(pts, LAMBDA pt3D : Val(pt3D.timestamp) > start_time
                                 /\ Val(pt3D.timestamp) < end_time)

NoneTimed(pts) == \E i \in 1..Len(pts) : pts[i].timestamp = None

\* trim: waypoints are filtered first, then trackpoints; both lists are
\* replaced after the two loops, so a TypeError (a point without a
\* timestamp compared to a datetime) leaves both as they were.
trim ==
    \E start_time \in 0..MaxTime, end_time \in 0..MaxTime :
        LET raised == IF NoneTimed(waypoints) \/ NoneTimed(trackpoints)
                      THEN "TypeError" ELSE "none" IN
        /\ waypoints' = IF raised = "none"
                        THEN TrimFilter(waypoints, start_time, end_time)
                        ELSE waypoints
        /\ trackpoints' = IF raised = "none"
                          THEN TrimFilter(trackpoints, start_time, end_time)
                          ELSE trackpoints
        /\ last' = Call("trim", [start_time |-> start_time, end_time |-> end_time],
                        None, raised)
        /\ pre' = Snapshot
        /\ UNCHANGED reference

\* SortLoop comparing each point with its right neighbour only
RECURSIVE SortLoopNeighbour(_, _, _)
SortLoopNeighbour(tps, i1, i2) ==
    LET n_trackpoints == trackpoints_count(tps) IN
    IF i1 >= n_trackpoints - 1 THEN [tps |-> tps, raised |-> "none"]
    ELSE IF i2 >= i1 + 2 THEN SortLoopNeighbour(tps, i1 + 1, i1 + 2)
    ELSE LET pt1 == tps[i1 + 1]
             pt2 == tps[i2 + 1]
         IN  IF pt1.timestamp = None \/ pt2.timestamp = None
             THEN [tps |-> tps, raised |-> "TypeError"]
             ELSE IF Val(pt1.timestamp) > Val(pt2.timestamp)
                  THEN SortLoopNeighbour(
                         [tps EXCEPT ![i1 + 1] = pt2, ![i2 + 1] = pt1], i1, i2 + 1)
                  ELSE SortLoopNeighbour(tps, i1, i2 + 1)

\* The two nested loops of sort_trackpoints from (i1, i2), 0-based: the
\* list is changed in place, so the swaps made before a TypeError stay.
RECURSIVE SortLoop(_, _, _)
SortLoop(tps, i1, i2) ==
    LET n_trackpoints == trackpoints_count(tps) IN
    IF i1 >= n_trackpoints - 1 THEN [tps |-> tps, raised |-> "none"]
    ELSE IF i2 >= n_trackpoints THEN SortLoop(tps, i1 + 1, i1 + 2)
    ELSE LET pt1 == tps[i1 + 1]
             pt2 == tps[i2 + 1]
         IN  IF pt1.timestamp = None \/ pt2.timestamp = None
             THEN [tps |-> tps, raised |-> "TypeError"]
             ELSE IF Val(pt1.timestamp) > Val(pt2.timestamp)
                  THEN SortLoop([tps EXCEPT ![i1 + 1] = pt2, ![i2 + 1] = pt1],
                                i1, i2 + 1)
                  ELSE SortLoop(tps, i1, i2 + 1)

SortResult(tps) == SortLoop(tps, 0, 1)

sort_trackpoints ==
    LET r == SortResult(trackpoints) IN
    /\ trackpoints' = r.tps
    /\ UNCHANGED waypoints
    /\ last' = Call("sort_trackpoints", <<>>, None, r.raised)
    /\ pre' = Snapshot
    /\ UNCHANGED reference

RECURSIVE GCD(_, _)
GCD(a, b) == IF b = 0 THEN a ELSE GCD(b, a % b)

Abs(x) == IF x < 0 THEN -x ELSE x

\* the float n / d (d # 0) as a fraction in lowest terms, d > 0
Ratio(n, d) ==
    LET g == GCD(Abs(n), Abs(d))
        sgn == IF d < 0 THEN -1 ELSE 1
    IN  << sgn * (n \div g), sgn * (d \div g) >>

\* UpdateSpeedLoop measuring every point from the first one
RECURSIVE UpdateSpeedLoopFromFirst(_, _)
UpdateSpeedLoopFromFirst(tps, i) ==
    IF i >= trackpoints_count(tps) THEN [tps |-> tps, raised |-> "none"]
    ELSE LET pt1 == tps[1]
             pt2 == tps[i + 1]
             dist == distance2D_to(pt2, pt1)
         IN  IF pt1.timestamp = None \/ pt2.timestamp = None
             THEN [tps |-> tps, raised |-> "TypeError"]
             ELSE LET delta_time == deltatime_seconds(pt2, pt1) IN
                  IF delta_time = 0
                  THEN [tps |-> tps, raised |-> "ZeroDivisionError"]
                  ELSE UpdateSpeedLoopFromFirst(
                         [tps EXCEPT ![i + 1].speed = Some(Ratio(dist, delta_time))],
                         i + 1)

\* The loop of update_speed from i (0-based): speeds are set in place, so
\* those set before an exception stay.
RECURSIVE UpdateSpeedLoop(_, _)
UpdateSpeedLoop(tps, i) ==
    IF i >= trackpoints_count(tps) THEN [tps |-> tps, raised |-> "none"]
    ELSE LET pt1 == tps[i]
             pt2 == tps[i + 1]
             dist == distance2D_to(pt2, pt1)
         IN  IF pt1.timestamp = None \/ pt2.timestamp = None
             THEN [tps |-> tps, raised |-> "TypeError"]
             ELSE LET delta_time == deltatime_seconds(pt2, pt1) IN
                  IF delta_time = 0
                  THEN [tps |-> tps, raised |-> "ZeroDivisionError"]
                  ELSE UpdateSpeedLoop(
                         [tps EXCEPT ![i + 1].speed = Some(Ratio(dist, delta_time))],
                         i + 1)

UpdateSpeedResult(tps) ==
    IF is_empty(tps) THEN [tps |-> tps, raised |-> "none"]
    ELSE IF Len(tps) < 2 THEN [tps |-> tps, raised |-> "none"]
    ELSE IF ~ has_timestamp(tps) THEN [tps |-> tps, raised |-> "none"]
    ELSE UpdateSpeedLoop([tps EXCEPT ![1].speed = Some(Ratio(0, 1))], 1)

update_speed ==
    LET r == UpdateSpeedResult(trackpoints) IN
    /\ trackpoints' = r.tps
    /\ UNCHANGED waypoints
    /\ last' = Call("update_speed", <<>>, None, r.raised)
    /\ pre' = Snapshot
    /\ UNCHANGED reference

\* sum of segment_length for index in range(lo, hi), 0-based
RECURSIVE SegmentSum(_, _, _)
SegmentSum(tps, lo, hi) ==
    IF lo >= hi THEN 0
    ELSE distance2D_to(tps[lo + 1], tps[lo]) + SegmentSum(tps, lo + 1, hi)

\* track_length that ignores to_index and always runs to the end
track_length_to_end(tps, from_index, to_index) ==
    LET n_trackpoints == Len(tps) IN
    IF n_trackpoints < 2 THEN 0
    ELSE LET from == IF from_index = None \/ Val(from_index) = 0
                        \/ Val(from_index) < 0
                     THEN 0 ELSE Val(from_index)
         IN  SegmentSum(tps, from + 1, n_trackpoints)

\* track_length(from_index, to_index); an argument is None or Some(int)
track_length_of(tps, from_index, to_index) ==
    LET n_trackpoints == Len(tps) IN
    IF n_trackpoints < 2 THEN 0
    ELSE LET from == IF from_index = None \/ Val(from_index) = 0
                        \/ Val(from_index) < 0
                     THEN 0 ELSE Val(from_index)
             to == IF to_index = None \/ Val(to_index) = 0
                      \/ Val(to_index) > n_trackpoints
                   THEN n_trackpoints ELSE Val(to_index)
         IN  SegmentSum(tps, from + 1, to)

OptIndices == {None} \cup { Some(i) : i \in 0..MaxPoints }

track_length ==
    \E from_index \in OptIndices \cup {Some(-1)}, to_index \in OptIndices :
        /\ UNCHANGED <<trackpoints, waypoints>>
        /\ last' = Call("track_length",
                        [from_index |-> from_index, to_index |-> to_index],
                        Some(track_length_of(trackpoints, from_index, to_index)),
                        "none")
        /\ pre' = Snapshot
        /\ UNCHANGED reference

\* The scan of find_nearest from i (0-based): <<min_dist, nearest_index>>,
\* each None or Some.  `if min_dist:` is false for None and for a distance
\* of 0.
RECURSIVE NearestScan(_, _, _, _, _)
NearestScan(tps, point, i, min_dist, nearest_index) ==
    IF i >= Len(tps) THEN <<min_dist, nearest_index>>
    ELSE LET dist == distance2D_to(tps[i + 1], point) IN
         IF min_dist # None /\ Val(min_dist) # 0
         THEN IF dist < Val(min_dist)
              THEN NearestScan(tps, point, i + 1, Some(dist), Some(i))
              ELSE NearestScan(tps, point, i + 1, min_dist, nearest_index)
         ELSE NearestScan(tps, point, i + 1, Some(dist), Some(i))

\* find_nearest(point, max_distance): None or Some(index)
find_nearest_of(tps, point, max_distance) ==
    IF is_empty(tps) THEN None
    ELSE LET r == NearestScan(tps, point, 0, None, None) IN
         IF Val(r[1]) < max_distance THEN r[2] ELSE None

\* query points: a point at each position of the files
QueryPoints == { TrackPoint3D(0, c[1], c[2], c[3], None) : c \in Positions }

\* thresholds: the default of find_nearest and one below it
MaxDistances == {7, 10}

find_nearest ==
    \E point \in QueryPoints, max_distance \in MaxDistances :
        /\ UNCHANGED <<trackpoints, waypoints>>
        /\ last' = Call("find_nearest",
                        [point |-> point, max_distance |-> max_distance],
                        find_nearest_of(trackpoints, point, max_distance), "none")
        /\ pre' = Snapshot
        /\ UNCHANGED reference

\* interp1d(xdata, ydata, 'linear') at the position num / den of the index
\* axis 0..Len(ydata) - 1, which the position lies in
Interp(ydata, num, den) ==
    LET j == num \div den
        r == num % den
    IN  IF r = 0 THEN ydata[j + 1]
        ELSE ydata[j + 1] + ((ydata[j + 2] - ydata[j + 1]) * r) \div den

\* reconstruct(n_nodes): np.linspace(0, n, n_nodes, endpoint=False) is the
\* positions i * n / n_nodes; interp1d raises ValueError for a position
\* outside [0, n - 1] (bounds_error is on unless the fill value
\* extrapolates), before the list is replaced.
ReconstructResult(tps, n_nodes) ==
    LET n_trackpoints == Len(tps) IN
    IF ~ (n_trackpoints > 2) THEN [tps |-> tps, raised |-> "none"]
    ELSE IF \E i \in 0..(n_nodes - 1) :
              i * n_trackpoints > (n_trackpoints - 1) * n_nodes
         THEN [tps |-> tps, raised |-> "ValueError"]
         ELSE [tps |-> [k \in 1..n_nodes |->
                  TrackPoint3D(k - 1,
                     Interp([x \in 1..n_trackpoints |-> tps[x].lat],
                            (k - 1) * n_trackpoints, n_nodes),
                     Interp([x \in 1..n_trackpoints |-> tps[x].long],
                            (k - 1) * n_trackpoints, n_nodes),
                     Interp([x \in 1..n_trackpoints |-> tps[x].elevation],
                            (k - 1) * n_trackpoints, n_nodes),
                     None)],
               raised |-> "none"]

reconstruct ==
    \E n_nodes \in 1..(MaxPoints + 1) :
        LET r == ReconstructResult(trackpoints, n_nodes) IN
        /\ trackpoints' = r.tps
        /\ UNCHANGED waypoints
        /\ last' = Call("reconstruct", [n_nodes |-> n_nodes], None, r.raised)
        /\ pre' = Snapshot
        /\ UNCHANGED reference

\* n_points of density_at for pt1: the trackpoints pt2 of the track, pt1
\* itself among them, with pt1.distance2D_to(pt2) < search_radius
NPoints(tps, pt1, search_radius) ==
    Cardinality({ j \in 1..Len(tps) : distance2D_to(pt1, tps[j]) < search_radius })

\* density_at sets the density of every trackpoint (at_index and
\* windowsize are not used) and returns None
density_at ==
    \E at_index \in {0, MaxPoints}, search_radius \in MaxDistances :
        /\ trackpoints' = [i \in 1..Len(trackpoints) |->
              [trackpoints[i] EXCEPT !.density =
                  Some(NPoints(trackpoints, trackpoints[i], search_radius))]]
        /\ UNCHANGED waypoints
        /\ last' = Call("density_at",
                        [at_index |-> at_index, search_radius |-> search_radius],
                        None, "none")
        /\ pre' = Snapshot
        /\ UNCHANGED reference

\* TrackPoint3D.set_timestamp, new_timestamp in milliseconds: a naive
\* datetime is cut to the whole second (and made UTC); an aware one is
\* stored as it is, and is only ever a whole second here (StampInputs).
set_timestamp(p, new_timestamp, aware) ==
    [p EXCEPT !.timestamp = Some(new_timestamp \div 1000)]

\* random.random() after random.seed(157), in thousandths, in draw order
Draws == <<611, 224, 16, 349, 231, 816>>

\* The loop of add_missing_timestamp from index: speed (in thousandths) is
\* average_speed + div * (2 * random.random() - 1); a zero speed raises
\* ZeroDivisionError and an index past the list IndexError, after the
\* earlier points were stamped.
RECURSIVE StampLoop(_, _, _, _, _, _)
StampLoop(tps, index, end_index, average_speed, div, aware) ==
    IF index > end_index THEN [tps |-> tps, raised |-> "none"]
    ELSE IF index >= Len(tps) THEN [tps |-> tps, raised |-> "IndexError"]
    ELSE LET dist == distance2D_to(tps[index + 1], tps[index])
             speed == average_speed + (div * (2 * Draws[index] - 1000)) \div 1000
         IN  IF speed = 0 THEN [tps |-> tps, raised |-> "ZeroDivisionError"]
             ELSE LET deltatime_ms == (dist * 1000000) \div speed
                      new_timestamp == Val(tps[index].timestamp) * 1000 + deltatime_ms
                  IN  StampLoop([tps EXCEPT ![index + 1] =
                                              set_timestamp(@, new_timestamp, aware)],
                                index + 1, end_index, average_speed, div, aware)

\* add_missing_timestamp: nothing on an empty track; "not end_index" (None
\* or 0) means the last index; trackpoints[0].timestamp = start_time, then
\* the loop over index 1..end_index.
AddMissingResult(tps, start_time, average_speed, div, end_index, aware) ==
    IF Len(tps) < 1 THEN [tps |-> tps, raised |-> "none"]
    ELSE LET e == IF end_index = None \/ end_index = Some(0)
                  THEN Len(tps) - 1 ELSE Val(end_index)
         IN  StampLoop([tps EXCEPT ![1].timestamp = Some(start_time)],
                       1, e, average_speed, div, aware)

\* (average_speed, div) in thousandths: the defaults, a steady 2, and 0
Speeds == { <<600, 100>>, <<2000, 0>>, <<0, 0>> }

\* the calls drawn: an aware start_time only with the steady speed, which
\* gives whole seconds for every distance between Positions
StampInputs ==
    { c \in [start_time : {0, MaxTime}, speed : Speeds, aware : BOOLEAN,
             end_index : {None, Some(0), Some(1), Some(MaxPoints)}] :
        c.aware => c.speed = <<2000, 0>> }

add_missing_timestamp ==
    \E c \in StampInputs :
        LET r == AddMissingResult(trackpoints, c.start_time, c.speed[1], c.speed[2],
                                  c.end_index, c.aware) IN
        /\ trackpoints' = r.tps
        /\ last' = Call("add_missing_timestamp", c, None, r.raised)
        /\ pre' = Snapshot
        /\ UNCHANGED reference
        /\ UNCHANGED waypoints

\* time_range(): None, or <<first timestamp, last timestamp>>
time_range(tps) ==
    IF is_empty(tps) THEN None
    ELSE IF has_timestamp(tps)
         THEN Some(<<tps[1].timestamp, tps[Len(tps)].timestamp>>)
         ELSE None

\* list.reverse()
Reverse(seq) == [i \in 1..Len(seq) |-> seq[Len(seq) + 1 - i]]

\* The waypoint loop of time_reverse from i (0-based): each timestamp is
\* mirrored at center_time = start_time + (end_time - start_time) / 2 and
\* cut to the whole second.  Times are doubled here so that the centre is
\* whole.  The timestamps are set in place, so those set before a
\* TypeError (a waypoint without timestamp) stay.
RECURSIVE ReflectLoop(_, _, _, _)
ReflectLoop(wps, i, start_time, end_time) ==
    IF i >= Len(wps) THEN [wps |-> wps, raised |-> "none"]
    ELSE LET pt == wps[i + 1]
             center2 == 2 * start_time + (end_time - start_time)
         IN  IF pt.timestamp = None THEN [wps |-> wps, raised |-> "TypeError"]
             ELSE LET t2 == 2 * Val(pt.timestamp)
                      new2 == IF t2 < center2 THEN center2 + (center2 - t2)
                              ELSE center2 - (t2 - center2)
                  IN  ReflectLoop([wps EXCEPT ![i + 1].timestamp = Some(new2 \div 2)],
                                  i + 1, start_time, end_time)

\* ReverseStampLoop dividing by the speed of the point being stamped
RECURSIVE ReverseStampLoopOwnSpeed(_, _)
ReverseStampLoopOwnSpeed(tps, i) ==
    IF i >= Len(tps) THEN [tps |-> tps, raised |-> "none"]
    ELSE LET pt1 == tps[i]
             pt2 == tps[i + 1]
             dist == distance2D_to(pt2, pt1)
         IN  IF pt2.speed = None THEN [tps |-> tps, raised |-> "TypeError"]
             ELSE LET deltatime_sec ==
                          IF Val(pt2.speed)[1] # 0
                          THEN (dist * Val(pt2.speed)[2]) \div Val(pt2.speed)[1]
                          ELSE 2
                  IN  ReverseStampLoopOwnSpeed(
                         [tps EXCEPT ![i + 1].timestamp =
                                        Some(Val(pt1.timestamp) + deltatime_sec)],
                         i + 1)

\* The last loop of time_reverse from i (0-based, on the reversed list):
\* each point is stamped its predecessor's time plus dist / pt1.speed (2
\* when that speed is 0), cut to the whole second.  Dividing by a speed
\* that was never set (None) raises TypeError.
RECURSIVE ReverseStampLoop(_, _)
ReverseStampLoop(tps, i) ==
    IF i >= Len(tps) THEN [tps |-> tps, raised |-> "none"]
    ELSE LET pt1 == tps[i]
             pt2 == tps[i + 1]
             dist == distance2D_to(pt2, pt1)
         IN  IF pt1.speed = None THEN [tps |-> tps, raised |-> "TypeError"]
             ELSE LET deltatime_sec ==
                          IF Val(pt1.speed)[1] # 0
                          THEN (dist * Val(pt1.speed)[2]) \div Val(pt1.speed)[1]
                          ELSE 2
                  IN  ReverseStampLoop(
                         [tps EXCEPT ![i + 1].timestamp =
                                        Some(Val(pt1.timestamp) + deltatime_sec)],
                         i + 1)

\* time_reverse: update_speed, time_range (subscripting None raises
\* TypeError), the waypoint loop, then the reversal and the stamping loop.
\* Everything is done in place, so what was done before an exception
\* stays done.
TimeReverseResult(tps, wps) ==
    LET u == UpdateSpeedResult(tps)
        time_extents == time_range(u.tps)
    IN  IF u.raised # "none" THEN [tps |-> u.tps, wps |-> wps, raised |-> u.raised]
        ELSE IF time_extents = None \/ Val(time_extents)[2] = None
        THEN [tps |-> u.tps, wps |-> wps, raised |-> "TypeError"]
        ELSE LET start_time == Val(Val(time_extents)[1])
                 end_time == Val(Val(time_extents)[2])
                 w == ReflectLoop(wps, 0, start_time, end_time)
                 reversed == Reverse(u.tps)
             IN  IF w.raised # "none"
                 THEN [tps |-> u.tps, wps |-> w.wps, raised |-> w.raised]
                 ELSE LET r == ReverseStampLoop(
                                 [reversed EXCEPT ![1].timestamp = Some(start_time)], 1)
                      IN  [tps |-> r.tps, wps |-> w.wps, raised |-> r.raised]

time_reverse ==
    LET r == TimeReverseResult(trackpoints, waypoints) IN
    /\ trackpoints' = r.tps
    /\ waypoints' = r.wps
    /\ last' = Call("time_reverse", <<>>, None, r.raised)
    /\ pre' = Snapshot
    /\ UNCHANGED reference

SetMin(S) == CHOOSE x \in S : \A y \in S : x <= y

SetMax(S) == CHOOSE x \in S : \A y \in S : x >= y

\* extents(): None on an empty track, else the six per-axis bounds
extents(tps) ==
    LET lats == { tps[i].lat : i \in 1..Len(tps) }
        longs == { tps[i].long : i \in 1..Len(tps) }
        elevs == { tps[i].elevation : i \in 1..Len(tps) }
    IN  IF Len(tps) > 0
        THEN Some( ("min-lat" :> SetMin(lats)) @@ ("max-lat" :> SetMax(lats))
                   @@ ("min-long" :> SetMin(longs)) @@ ("max-long" :> SetMax(longs))
                   @@ ("min-elevation" :> SetMin(elevs))
                   @@ ("max-elevation" :> SetMax(elevs)) )
        ELSE None

\* average_speed(): subscripting None raises TypeError, a key the dict
\* lacks raises KeyError; past those, `duration` is the bound method
\* total_seconds (it is not called) and dividing by it raises TypeError.
AverageSpeedResult(tps) ==
    LET ext == extents(tps) IN
    IF ext = None THEN [ret |-> None, raised |-> "TypeError"]
    ELSE IF "start-time" \notin DOMAIN Val(ext)
         THEN [ret |-> None, raised |-> "KeyError"]
         ELSE IF "end-time" \notin DOMAIN Val(ext)
              THEN [ret |-> None, raised |-> "KeyError"]
              ELSE [ret |-> None, raised |-> "TypeError"]

average_speed ==
    LET r == AverageSpeedResult(trackpoints) IN
    /\ UNCHANGED <<trackpoints, waypoints>>
    /\ last' = Call("average_speed", <<>>, r.ret, r.raised)
    /\ pre' = Snapshot
    /\ UNCHANGED reference

\* (1 - weight) * a + weight * b for the weight w[1] / w[2]
Blend(w, a, b) == ((w[2] - w[1]) * a + w[1] * b) \div w[2]

\* TrackPoint3D.attract_to: the point itself, moved
point_attract_to(p, other, weight, preserve_elevation) ==
    [p EXCEPT !.lat = Blend(weight, p.lat, other.lat),
              !.long = Blend(weight, p.long, other.long),
              !.elevation = IF ~ preserve_elevation
                            THEN Blend(weight, p.elevation, other.elevation)
                            ELSE p.elevation]

\* The window of Tracklog.attract_to: a missing bound is taken from
\* time_range() (subscripting None raises TypeError), the bounds are
\* swapped when out of order (comparing with None raises TypeError).
AttractWindow(tps, start_time, end_time) ==
    LET time_extents == time_range(tps) IN
    IF (start_time = None \/ end_time = None) /\ time_extents = None
    THEN [raised |-> "TypeError", start |-> 0, end |-> 0]
    ELSE LET s == IF start_time = None THEN Val(time_extents)[1] ELSE start_time
             e == IF end_time = None THEN Val(time_extents)[2] ELSE end_time
         IN  IF s = None \/ e = None
             THEN [raised |-> "TypeError", start |-> 0, end |-> 0]
             ELSE IF Val(s) > Val(e)
                  THEN [raised |-> "none", start |-> Val(e), end |-> Val(s)]
                  ELSE [raised |-> "none", start |-> Val(s), end |-> Val(e)]

\* AttractLoop without the window test: every point with a target is moved
RECURSIVE AttractLoopNoWindow(_, _, _, _, _, _, _, _)
AttractLoopNoWindow(tps, other, i, max_dist, attr_weight, preserve_height, start, end) ==
    IF i >= Len(tps) THEN [tps |-> tps, raised |-> "none"]
    ELSE LET trkpt == tps[i + 1] IN
         IF trkpt.timestamp = None THEN [tps |-> tps, raised |-> "TypeError"]
         ELSE LET target_index == find_nearest_of(other, trkpt, max_dist) IN
              IF target_index # None /\ Val(target_index) # 0
              THEN IF Val(target_index) >= Len(tps)
                   THEN [tps |-> tps, raised |-> "IndexError"]
                   ELSE AttractLoopNoWindow(
                          [tps EXCEPT ![i + 1] =
                             point_attract_to(trkpt, tps[Val(target_index) + 1],
                                              attr_weight, preserve_height)],
                          other, i + 1, max_dist, attr_weight,
                          preserve_height, start, end)
              ELSE AttractLoopNoWindow(tps, other, i + 1, max_dist, attr_weight,
                                       preserve_height, start, end)

\* The loop of Tracklog.attract_to from i (0-based).  The points are moved
\* in place, so those moved before an exception stay moved; the target is
\* read from this track's own list as it is at that moment.
RECURSIVE AttractLoop(_, _, _, _, _, _, _, _)
AttractLoop(tps, other, i, max_dist, attr_weight, preserve_height, start, end) ==
    IF i >= Len(tps) THEN [tps |-> tps, raised |-> "none"]
    ELSE LET trkpt == tps[i + 1] IN
         IF trkpt.timestamp = None THEN [tps |-> tps, raised |-> "TypeError"]
         ELSE IF Val(trkpt.timestamp) > start /\ Val(trkpt.timestamp) < end
              THEN LET target_index == find_nearest_of(other, trkpt, max_dist) IN
                   IF target_index # None /\ Val(target_index) # 0
                   THEN IF Val(target_index) >= Len(tps)
                        THEN [tps |-> tps, raised |-> "IndexError"]
                        ELSE AttractLoop(
                               [tps EXCEPT ![i + 1] =
                                  point_attract_to(trkpt, tps[Val(target_index) + 1],
                                                   attr_weight, preserve_height)],
                               other, i + 1, max_dist, attr_weight,
                               preserve_height, start, end)
                   ELSE AttractLoop(tps, other, i + 1, max_dist, attr_weight,
                                    preserve_height, start, end)
              ELSE AttractLoop(tps, other, i + 1, max_dist, attr_weight,
                               preserve_height, start, end)

AttractResult(tps, other, max_dist, attr_weight, preserve, start_time, end_time) ==
    LET w == AttractWindow(tps, start_time, end_time)
        preserve_height == preserve
    IN
    IF w.raised # "none" THEN [tps |-> tps, raised |-> w.raised]
    ELSE AttractLoop(tps, other, 0, max_dist, attr_weight, preserve_height,
                     w.start, w.end)

\* longest trackpoint list of a reference track
MaxRef == 2

\* sequences over S of length 0..n
SeqUpTo(S, n) == UNION { [1..k -> S] : k \in 0..n }

\* reference tracks: untimed points at the files' positions
RefTracks ==
    { [i \in 1..Len(cs) |-> TrackPoint3D(i, cs[i][1], cs[i][2], cs[i][3], None)] :
        cs \in SeqUpTo(Positions, MaxRef) }

\* The other Tracklog as attract_to leaves it: its trackpoints are only
\* read (by find_nearest), its waypoints (here one, untimed) not at all.
OtherTracklog(other) ==
    [trackpoints |-> other,
     waypoints |-> ReadPoints(<<[pos |-> Anchor, time |-> None]>>)]

\* attraction weights, as <<numerator, denominator>>
Weights == { <<1, 2>>, <<1, 1>> }

\* <<start_time, end_time>> arguments: the defaults, a window in order and
\* one out of order
Windows == { <<None, None>>, <<Some(0), Some(MaxTime)>>, <<Some(MaxTime), Some(0)>> }

\* Tracklog.attract_to, called on the track as it was built
attract_to ==
    /\ last.op = "__init__"
    /\ \E other \in RefTracks, max_dist \in MaxDistances, attr_weight \in Weights,
          preserve_height \in BOOLEAN, window \in Windows :
        LET r == AttractResult(trackpoints, other, max_dist, attr_weight,
                               preserve_height, window[1], window[2]) IN
        /\ trackpoints' = r.tps
        /\ UNCHANGED waypoints
        /\ last' = Call("attract_to",
                        [other |-> other, max_dist |-> max_dist,
                         attr_weight |-> attr_weight,
                         preserve_height |-> preserve_height,
                         start_time |-> window[1], end_time |-> window[2]],
                        None, r.raised)
        /\ pre' = Snapshot
        /\ reference' = OtherTracklog(other)

(* ----------------------------- properties ------------------------------ *)

\* a is b with some elements left out, the rest in b's order
RECURSIVE IsSubsequence(_, _)
IsSubsequence(a, b) ==
    IF Len(a) = 0 THEN TRUE
    ELSE IF Len(b) = 0 THEN FALSE
    ELSE IF Head(a) = Head(b) THEN IsSubsequence(Tail(a), Tail(b))
    ELSE IsSubsequence(a, Tail(b))

\* how often x occurs in the sequence a
Count(a, x) == Cardinality({ i \in 1..Len(a) : a[i] = x })

IsPermutation(a, b) ==
    /\ Len(a) = Len(b)
    /\ \A i \in 1..Len(a) : Count(a, a[i]) = Count(b, a[i])

EveryTimed(pts) == \A i \in 1..Len(pts) : pts[i].timestamp # None

StrictlyIncreasing(pts) ==
    \A i \in 1..(Len(pts) - 1) : Val(pts[i].timestamp) < Val(pts[i + 1].timestamp)

\* a completed regulate_points call on a track of timestamped points
Regulated ==
    /\ last.op = "regulate_points"
    /\ last.raised = "none"
    /\ Len(pre.trackpoints) >= 1
    /\ EveryTimed(pre.trackpoints)

\* C1: after regulate_points with min_deltatime_sec >= 0 on a track with at
\* least one timestamped trackpoint, the first original trackpoint is the
\* first element of the resulting trackpoints.
C1_FirstPointRetained ==
    (Regulated /\ last.args.min_deltatime_sec >= 0)
        => /\ Len(trackpoints) >= 1
           /\ trackpoints[1] = pre.trackpoints[1]

\* C2: after regulate_points every two adjacent trackpoints of the result
\* are at least min_deltatime_sec apart (later minus earlier), and the
\* result is a subsequence of the original trackpoints in their order.
C2_RegulateSpacing ==
    Regulated
        => /\ \A i \in 1..(Len(trackpoints) - 1) :
                 deltatime_seconds(trackpoints[i + 1], trackpoints[i])
                     >= last.args.min_deltatime_sec
           /\ IsSubsequence(trackpoints, pre.trackpoints)

\* C2 witness: a call that kept two points and dropped another, with a
\* positive minimum
C2_Witness ==
    /\ Regulated
    /\ last.args.min_deltatime_sec >= 1
    /\ Len(trackpoints) = 2
    /\ Len(pre.trackpoints) > 2

\* the indices (0-based) of the trackpoints within max_distance of point
WithinDistance(tps, point, max_distance) ==
    { i \in 0..(Len(tps) - 1) : distance2D_to(tps[i + 1], point) <= max_distance }

\* C3: find_nearest returns an index of a trackpoint within max_distance
\* of the query point whenever there is one, and None exactly when no
\* trackpoint is within max_distance (a distance of exactly 0 or exactly
\* max_distance counts as within).
C3_NearestWithin ==
    last.op = "find_nearest"
        => LET within == WithinDistance(trackpoints, last.args.point,
                                        last.args.max_distance)
           IN  /\ within # {} => (last.ret # None /\ Val(last.ret) \in within)
               /\ (last.ret = None) <=> (within = {})

\* the index (0-based) of the trackpoint of tps nearest to point, the
\* lowest such index; tps is not empty
NearestIndex(tps, point) ==
    CHOOSE i \in 0..(Len(tps) - 1) :
        /\ \A j \in 0..(Len(tps) - 1) :
              distance2D_to(tps[i + 1], point) <= distance2D_to(tps[j + 1], point)
        /\ \A j \in 0..(i - 1) :
              distance2D_to(tps[j + 1], point) > distance2D_to(tps[i + 1], point)

\* a completed Tracklog.attract_to call
Attracted == last.op = "attract_to" /\ last.raised = "none"

\* the source points (1-based) of the last attract_to call that lie
\* strictly inside its window and have a reference point within max_dist
\* (strictly within, as find_nearest decides it)
Matched ==
    LET w == AttractWindow(pre.trackpoints, last.args.start_time, last.args.end_time)
        other == last.args.other
    IN  { i \in 1..Len(pre.trackpoints) :
            /\ Val(pre.trackpoints[i].timestamp) > w.start
            /\ Val(pre.trackpoints[i].timestamp) < w.end
            /\ Len(other) > 0
            /\ distance2D_to(other[NearestIndex(other, pre.trackpoints[i]) + 1],
                             pre.trackpoints[i]) < last.args.max_dist }

\* C4: after attract_to, every source trackpoint strictly inside the window
\* with a nearest reference trackpoint within max_dist (at any index of
\* `other`, index 0 included) has latitude and longitude
\* (1-w)*source + w*reference, the reference being that nearest trackpoint
\* of `other`; its elevation is unchanged when preserve_height is true and
\* blended the same way otherwise.
C4_BlendTowardReference ==
    Attracted
        => \A i \in Matched :
             LET src == pre.trackpoints[i]
                 ref == last.args.other[NearestIndex(last.args.other, src) + 1]
                 w == last.args.attr_weight
             IN  /\ trackpoints[i].lat = Blend(w, src.lat, ref.lat)
                 /\ trackpoints[i].long = Blend(w, src.long, ref.long)
                 /\ trackpoints[i].elevation =
                        IF last.args.preserve_height THEN src.elevation
                        ELSE Blend(w, src.elevation, ref.elevation)

\* C5 (original statement): wherever track_length is called, track_length() >= 0 and
\* for every 0 < k < n the lengths track_length(0, k) and
\* track_length(k, n) add up to track_length().
C5_SplitAtIndex ==
    last.op = "track_length"
        => LET n == Len(trackpoints) IN
           /\ track_length_of(trackpoints, None, None) >= 0
           /\ \A k \in 1..(n - 1) :
                 track_length_of(trackpoints, Some(0), Some(k))
                   + track_length_of(trackpoints, Some(k), Some(n))
                 = track_length_of(trackpoints, None, None)

\* C5 (amended statement): wherever track_length is called, track_length() >= 0 and
\* for every 0 < k < n the lengths track_length(0, k + 1) and
\* track_length(k, n), the two halves sharing trackpoint k (to_index is
\* exclusive), add up to track_length().
C5_SplitSharingPoint ==
    last.op = "track_length"
        => LET n == Len(trackpoints) IN
           /\ track_length_of(trackpoints, None, None) >= 0
           /\ \A k \in 1..(n - 1) :
                 track_length_of(trackpoints, Some(0), Some(k + 1))
                   + track_length_of(trackpoints, Some(k), Some(n))
                 = track_length_of(trackpoints, None, None)

\* C5 witness: track_length(k, n) was called with 0 < k < n - 1 on a track
\* whose segments on both sides of k have positive length
C5_Witness ==
    /\ last.op = "track_length"
    /\ last.args.from_index # None
    /\ last.args.to_index = Some(Len(trackpoints))
    /\ Val(last.args.from_index) > 0
    /\ Val(last.ret) > 0
    /\ track_length_of(trackpoints, Some(0), Some(Val(last.args.from_index) + 1)) > 0

\* C6: on a track of more than 2 trackpoints reconstruct(n_nodes), for any
\* n_nodes >= 1, completes and leaves exactly n_nodes trackpoints, the
\* i-th sampled at position i*N/n_nodes, which lies inside [0, N-1]; the
\* sample for i = 0 has the original first point's coordinates.
C6_ReconstructYieldsN ==
    (last.op = "reconstruct" /\ Len(pre.trackpoints) > 2)
        => LET N == Len(pre.trackpoints)
               n_nodes == last.args.n_nodes
           IN  /\ last.raised = "none"
               /\ Len(trackpoints) = n_nodes
               /\ \A i \in 0..(n_nodes - 1) : i * N <= (N - 1) * n_nodes
               /\ trackpoints[1].lat = pre.trackpoints[1].lat
               /\ trackpoints[1].long = pre.trackpoints[1].long
               /\ trackpoints[1].elevation = pre.trackpoints[1].elevation

NonDecreasing(pts) ==
    \A i \in 1..(Len(pts) - 1) : Val(pts[i].timestamp) <= Val(pts[i + 1].timestamp)

\* a sort_trackpoints call on a track whose trackpoints all carry timestamps
Sorted == last.op = "sort_trackpoints" /\ EveryTimed(pre.trackpoints)

\* C7: sort_trackpoints on a track whose trackpoints all carry timestamps
\* leaves them in non-decreasing timestamp order, a permutation of the
\* original points, and sorting once more changes nothing.
C7_SortOrdersAndIsIdempotent ==
    Sorted
        => /\ last.raised = "none"
           /\ NonDecreasing(trackpoints)
           /\ IsPermutation(trackpoints, pre.trackpoints)
           /\ SortResult(trackpoints) = [tps |-> trackpoints, raised |-> "none"]

\* C7 witness: a sort that moved the first point of a track of three with
\* two equal timestamps
C7_Witness ==
    /\ Sorted
    /\ Len(trackpoints) >= 3
    /\ trackpoints[1] # pre.trackpoints[1]
    /\ \E i \in 1..(Len(trackpoints) - 1) :
          trackpoints[i].timestamp = trackpoints[i + 1].timestamp

Inside(pt, start_time, end_time) ==
    Val(pt.timestamp) > start_time /\ Val(pt.timestamp) < end_time

\* after is exactly the points of before strictly inside the window, in
\* before's order
ExactlyInside(after, before, start_time, end_time) ==
    /\ IsSubsequence(after, before)
    /\ \A i \in 1..Len(after) : Inside(after[i], start_time, end_time)
    /\ Len(after) = Cardinality({ i \in 1..Len(before) :
                                    Inside(before[i], start_time, end_time) })

\* a trim call on a track whose waypoints and trackpoints all carry
\* timestamps
Trimmed ==
    /\ last.op = "trim"
    /\ EveryTimed(pre.trackpoints)
    /\ EveryTimed(pre.waypoints)

\* C8: trim(start_time, end_time) leaves in waypoints and in trackpoints
\* exactly the points with start_time < timestamp < end_time, in their
\* original order, each list filtered on its own; a window that excludes
\* every point leaves both lists empty.
C8_TrimKeepsStrictlyInside ==
    Trimmed
        => /\ last.raised = "none"
           /\ ExactlyInside(trackpoints, pre.trackpoints,
                            last.args.start_time, last.args.end_time)
           /\ ExactlyInside(waypoints, pre.waypoints,
                            last.args.start_time, last.args.end_time)

\* C8 witness: a trim that kept a trackpoint, dropped a trackpoint lying
\* exactly on a bound, and dropped a waypoint lying exactly on a bound
C8_Witness ==
    /\ Trimmed
    /\ Len(trackpoints) >= 1
    /\ \E i \in 1..Len(pre.trackpoints) :
          Val(pre.trackpoints[i].timestamp) = last.args.end_time
    /\ \E i \in 1..Len(pre.waypoints) :
          Val(pre.waypoints[i].timestamp) = last.args.start_time
    /\ Len(waypoints) < Len(pre.waypoints)

\* C9: update_speed on a track with fewer than 2 trackpoints, or whose
\* first trackpoint has no timestamp, returns None without raising and
\* leaves the trackpoints as they were; on a track of >= 2 trackpoints with
\* strictly increasing timestamps it sets speed[0] = 0 and, for i >= 1,
\* speed[i] = distance(pt[i-1], pt[i]) / seconds between them, changing
\* nothing else.
C9_UpdateSpeed ==
    last.op = "update_speed"
        => LET old == pre.trackpoints IN
           /\ (Len(old) < 2 \/ old[1].timestamp = None)
                 => /\ last.raised = "none"
                    /\ last.ret = None
                    /\ trackpoints = old
           /\ (Len(old) >= 2 /\ EveryTimed(old) /\ StrictlyIncreasing(old))
                 => /\ last.raised = "none"
                    /\ Len(trackpoints) = Len(old)
                    /\ Val(trackpoints[1].speed)[1] = 0
                    /\ \A i \in 2..Len(old) :
                          Val(trackpoints[i].speed)[1]
                              * deltatime_seconds(old[i], old[i - 1])
                          = distance2D_to(old[i - 1], old[i])
                              * Val(trackpoints[i].speed)[2]
                    /\ \A i \in 1..Len(old) :
                          [trackpoints[i] EXCEPT !.speed = None]
                              = [old[i] EXCEPT !.speed = None]

\* C9 witness: speeds derived on a track of three points with strictly
\* increasing timestamps, two different positive speeds among them
C9_Witness ==
    /\ last.op = "update_speed"
    /\ Len(pre.trackpoints) >= 3
    /\ EveryTimed(pre.trackpoints)
    /\ StrictlyIncreasing(pre.trackpoints)
    /\ trackpoints[2].speed # None
    /\ Val(trackpoints[2].speed)[1] > 0
    /\ trackpoints[3].speed # None
    /\ Val(trackpoints[3].speed)[1] > 0
    /\ trackpoints[2].speed # trackpoints[3].speed

\* C10: average_speed on a non-empty track with timestamps and a non-zero
\* duration returns track_length() divided by the seconds from the first
\* to the last timestamp; on a track without timestamps, or an empty
\* track, it returns None rather than raising.
C10_AverageSpeed ==
    last.op = "average_speed"
        => LET tps == trackpoints IN
           /\ (Len(tps) > 0 /\ EveryTimed(tps)
               /\ tps[1].timestamp # tps[Len(tps)].timestamp)
                 => /\ last.raised = "none"
                    /\ last.ret # None
                    /\ Val(last.ret) =
                          Ratio(track_length_of(tps, None, None),
                                deltatime_seconds(tps[Len(tps)], tps[1]))
           /\ (Len(tps) = 0 \/ ~ has_timestamp(tps))
                 => /\ last.raised = "none"
                    /\ last.ret = None

\* a time_reverse call on a track of >= 2 trackpoints with strictly
\* increasing timestamps, every waypoint carrying a timestamp
Reversed ==
    /\ last.op = "time_reverse"
    /\ Len(pre.trackpoints) >= 2
    /\ EveryTimed(pre.trackpoints)
    /\ StrictlyIncreasing(pre.trackpoints)
    /\ EveryTimed(pre.waypoints)

\* what C11 states of the reversed trackpoints and of the waypoints, the
\* total elapsed time apart
ReversedAndRestamped ==
    LET old == pre.trackpoints
        n == Len(old)
        start_time == Val(old[1].timestamp)
        end_time == Val(old[n].timestamp)
    IN  /\ last.raised = "none"
        /\ Len(trackpoints) = n
        /\ \A i \in 1..n :
              [trackpoints[i] EXCEPT !.timestamp = None, !.speed = None]
                = [old[n + 1 - i] EXCEPT !.timestamp = None, !.speed = None]
        /\ trackpoints[1].timestamp = Some(start_time)
        /\ \A i \in 2..n :
              LET prev == trackpoints[i - 1]
                  cur == trackpoints[i]
                  gap == Val(cur.timestamp) - Val(prev.timestamp)
                  \* prev is old[j]; its speed was derived from old[j - 1]
                  j == n + 2 - i
              IN  /\ Val(prev.speed)[1] * deltatime_seconds(old[j], old[j - 1])
                        = distance2D_to(old[j - 1], old[j]) * Val(prev.speed)[2]
                  /\ IF Val(prev.speed)[1] = 0 THEN gap = 2
                     ELSE gap * Val(prev.speed)[1]
                            = distance2D_to(prev, cur) * Val(prev.speed)[2]
        /\ NonDecreasing(trackpoints)
        /\ Len(waypoints) = Len(pre.waypoints)
        /\ \A k \in 1..Len(waypoints) :
              waypoints[k] =
                 [pre.waypoints[k] EXCEPT !.timestamp =
                     Some(start_time + end_time - Val(pre.waypoints[k].timestamp))]

Elapsed(pts) == Val(pts[Len(pts)].timestamp) - Val(pts[1].timestamp)

\* C11 (original statement): time_reverse on a track of >= 2 trackpoints
\* with strictly increasing whole-second timestamps leaves the points in
\* reversed order, the first at the original start time, each later one at
\* its predecessor's time plus distance(prev, cur) / prev.speed for the
\* speed derived before the reversal (2 seconds when that speed is 0), so
\* the timestamps are non-decreasing and the total elapsed time equals the
\* original span; every waypoint timestamp t becomes start + end - t.
C11_ReverseKeepsSpan ==
    Reversed
        => /\ ReversedAndRestamped
           /\ Elapsed(trackpoints) = Elapsed(pre.trackpoints)

\* two consecutive trackpoints at one planar position
Coinciding(pts) ==
    \E i \in 1..(Len(pts) - 1) : distance2D_to(pts[i], pts[i + 1]) = 0

\* C11 (amended statement): as above, but the total elapsed time equals
\* the original span only when no two consecutive trackpoints coincide in
\* the plane: a zero speed replaces that gap by 2 seconds.
C11_ReverseKeepsSpanUnlessCoinciding ==
    Reversed
        => /\ ReversedAndRestamped
           /\ ~ Coinciding(pre.trackpoints)
                 => Elapsed(trackpoints) = Elapsed(pre.trackpoints)

\* C11 witness: three trackpoints at different positions, unequal gaps,
\* and a waypoint were reversed
C11_Witness ==
    /\ Reversed
    /\ Len(pre.trackpoints) >= 3
    /\ ~ Coinciding(pre.trackpoints)
    /\ deltatime_seconds(pre.trackpoints[2], pre.trackpoints[1])
         # deltatime_seconds(pre.trackpoints[3], pre.trackpoints[2])
    /\ Elapsed(trackpoints) = Elapsed(pre.trackpoints)

\* C12: add_missing_timestamp(start_time, average_speed, div) gives every
\* trackpoint of index 1..end_index that had no timestamp its
\* predecessor's timestamp plus distance(prev, cur) / (average_speed +
\* jitter), and every trackpoint that already carried a timestamp keeps it.
C12_OnlyMissingStamped ==
    (last.op = "add_missing_timestamp" /\ last.raised = "none")
        => \A i \in 1..Len(trackpoints) :
              IF pre.trackpoints[i].timestamp # None
              THEN trackpoints[i].timestamp = pre.trackpoints[i].timestamp
              ELSE (i >= 2 /\ (last.args.end_index \in {None, Some(0)}
                               \/ i - 1 <= Val(last.args.end_index)))
                     => LET speed == last.args.speed[1]
                                       + (last.args.speed[2] * (2 * Draws[i - 1] - 1000))
                                           \div 1000
                        IN  Val(trackpoints[i].timestamp)
                              = Val(trackpoints[i - 1].timestamp)
                                  + (distance2D_to(trackpoints[i - 1], trackpoints[i])
                                       * 1000) \div speed

\* the source points (1-based) of the last attract_to call whose timestamp
\* is strictly inside its window and that have a reference point within
\* max_dist
Eligible ==
    LET w == AttractWindow(pre.trackpoints, last.args.start_time, last.args.end_time)
    IN  { i \in 1..Len(pre.trackpoints) :
            /\ w.raised = "none"
            /\ pre.trackpoints[i].timestamp # None
            /\ Val(pre.trackpoints[i].timestamp) > w.start
            /\ Val(pre.trackpoints[i].timestamp) < w.end
            /\ WithinDistance(last.args.other, pre.trackpoints[i],
                              last.args.max_dist) # {} }

\* lat, long, elevation and timestamp of p are those of q
SamePlaceAndTime(p, q) ==
    /\ p.lat = q.lat
    /\ p.long = q.long
    /\ p.elevation = q.elevation
    /\ p.timestamp = q.timestamp

\* C13: Tracklog.attract_to(other, ...) keeps the number and order of the
\* source trackpoints, leaves lat, long, elevation and timestamp of every
\* source trackpoint that is not strictly inside the window or has no
\* reference point within max_dist as they were, and leaves the trackpoints
\* and waypoints of `other` as they were.
C13_AttractFrame ==
    last.op = "attract_to"
        => /\ Len(trackpoints) = Len(pre.trackpoints)
           /\ \A i \in 1..Len(trackpoints) :
                 /\ trackpoints[i].name = pre.trackpoints[i].name
                 /\ i \notin Eligible
                       => SamePlaceAndTime(trackpoints[i], pre.trackpoints[i])
           /\ waypoints = pre.waypoints
           /\ reference = OtherTracklog(last.args.other)

\* C13 witness: one call moved a point, left a point inside the window
\* without a reference point in range where it was, and left a point
\* outside the window with a reference point in range where it was
C13_Witness ==
    /\ Attracted
    /\ \E i \in Eligible : ~ SamePlaceAndTime(trackpoints[i], pre.trackpoints[i])
    /\ LET w == AttractWindow(pre.trackpoints, last.args.start_time,
                              last.args.end_time)
       IN  \E j, k \in 1..Len(trackpoints) :
              /\ Val(pre.trackpoints[j].timestamp) > w.start
              /\ Val(pre.trackpoints[j].timestamp) < w.end
              /\ WithinDistance(last.args.other, pre.trackpoints[j],
                                last.args.max_dist) = {}
              /\ ~ (Val(pre.trackpoints[k].timestamp) > w.start
                    /\ Val(pre.trackpoints[k].timestamp) < w.end)
              /\ WithinDistance(last.args.other, pre.trackpoints[k],
                                last.args.max_dist) # {}
    /\ Len(reference.trackpoints) = MaxRef

\* C14: on a non-empty track, an index returned by find_nearest is that of
\* a trackpoint at the minimum planar distance to the query point, the
\* lowest index among the trackpoints at that distance, a trackpoint at
\* distance exactly 0 included.
C14_NearestIsLowestMinimum ==
    (last.op = "find_nearest" /\ ~ is_empty(trackpoints) /\ last.ret # None)
        => Val(last.ret) = NearestIndex(trackpoints, last.args.point)

\* C15: after density_at with a search radius > 0, the density of every
\* trackpoint is the number of other trackpoints of the track (the point
\* itself left out) within the planar search radius of it; a track of one
\* trackpoint gets density 0.
C15_DensityCountsOthers ==
    last.op = "density_at"
        => \A i \in 1..Len(trackpoints) :
              trackpoints[i].density =
                 Some(Cardinality({ j \in 1..Len(trackpoints) \ {i} :
                        distance2D_to(trackpoints[i], trackpoints[j])
                           <= last.args.search_radius }))

(* ----------------------------- behaviours ------------------------------ *)

\* the methods that order and thin the lists by time
NextTime == regulate_points \/ trim \/ sort_trackpoints

SpecTime == InitTime /\ [][NextTime]_vars

\* the methods that measure and resample the geometry
NextGeo == track_length \/ find_nearest \/ reconstruct

SpecGeo == InitGeo /\ [][NextGeo]_vars

\* the methods that derive speeds
NextSpeed == update_speed \/ average_speed

SpecSpeed == InitSpeed /\ [][NextSpeed]_vars

\* the density estimate
NextDensity == density_at

SpecDensity == InitGeo /\ [][NextDensity]_vars

\* synthesising timestamps
NextStamp == add_missing_timestamp

SpecStamp == InitSpeed /\ [][NextStamp]_vars

\* reversing the chronology
NextReverse == time_reverse

SpecReverse == InitReverse /\ [][NextReverse]_vars

\* snapping to a reference track
NextSnap == attract_to

SpecSnap == InitSnap /\ [][NextSnap]_vars

====
